---- MODULE Spec2Model ----
(***************************************************************************)
(* Model of the ZX Spectrum border device (src/zx/screen/border.rs).       *)
(*                                                                         *)
(* ZXBorder turns border colour changes, timestamped with the CPU clock,   *)
(* into a pixel buffer: set_border paints the span the beam has covered    *)
(* since the previous change with the previous colour, new_frame paints    *)
(* the rest of the frame and rewinds the beam.                             *)
(*                                                                         *)
(* The frame geometry and the machine timings live in zx::constants and    *)
(* zx::machine; they are scaled down here to a frame of a few pixels so    *)
(* that every buffer can be enumerated.                                    *)
(***************************************************************************)
EXTENDS Integers, Sequences, FiniteSets

(***************************************************************************)
(* Bounds of the model.                                                    *)
(***************************************************************************)
\* clocks of one scanline during which the beam is inside the frame
VisibleClocks == 2
\* scanlines of the frame
SCREEN_HEIGHT == 2
\* set_border calls followed within one frame
MaxEvents == 2
\* frames followed, the last of them one without set_border calls
MaxFrames == 2

(***************************************************************************)
(* zx::constants and the machine specs (scaled).                           *)
(***************************************************************************)
PIXELS_PER_CLOCK == 2
BYTES_PER_PIXEL == 4
BORDER_ROWS == 1
BORDER_COLS == 1
CLOCKS_PER_COL == 4
SCREEN_WIDTH == VisibleClocks * PIXELS_PER_CLOCK
PIXEL_COUNT == SCREEN_WIDTH * SCREEN_HEIGHT
\* horizontal retrace: one clock per line with the beam outside the frame
clocks_line == VisibleClocks + 1
clocks_ula_beam_shift == 1
clocks_first_pixel == 8 * BORDER_ROWS * clocks_line + BORDER_COLS * CLOCKS_PER_COL

\* the colours the caller passes (a subset of the eight ZX colours)
ZXColor == {"Red", "White"}

\* ZXPalette::get_rgba: the RGBA bytes of a colour at a brightness
get_rgba(color, brightness) ==
    LET v == IF brightness = "Bright" THEN 255 ELSE 205
    IN  CASE color = "Red"   -> <<v, 0, 0, 255>>
          [] color = "Blue"  -> <<0, 0, v, 255>>
          [] color = "White" -> <<v, v, v, 255>>

(***************************************************************************)
(* BeamInfo                                                                *)
(***************************************************************************)
BeamInfo_new(line, pixel, color) == [line |-> line, pixel |-> pixel, color |-> color]

first_pixel(color) == BeamInfo_new(0, 0, color)

\* mutant of reset: the pixel is not rewound
reset_line_only(beam) == [beam EXCEPT !.line = 0]

reset(beam) == [beam EXCEPT !.line = 0, !.pixel = 0]

(***************************************************************************)
(* State of ZXBorder, and the calls made on it.                            *)
(***************************************************************************)
VARIABLES
    buffer,          \* the texture: byte b of pixel p, buffer[p * BYTES_PER_PIXEL + b], is buffer[p][b + 1]
    beam_last,       \* BeamInfo of the last colour change
    border_changed,  \* set_border was called during this frame
    beam_block,      \* the tail of this frame is already painted
    calls,           \* history: the calls of the frame, its closing new_frame included
    carry,           \* history: beam_last.color when the frame of calls began
    last_set,        \* history: colour argument of the latest set_border
    touched,         \* history: pixel indexes written by the latest call
    painted,         \* history: pixel indexes written by the calls of the frame
    frames,          \* history: number of new_frame calls
    quiet            \* history: frames closed in a row without a set_border

vars == <<buffer, beam_last, border_changed, beam_block,
          calls, carry, last_set, touched, painted, frames, quiet>>

(***************************************************************************)
(* ZXBorder::next_border_pixel                                             *)
(***************************************************************************)
clocks_origin ==
    clocks_first_pixel - 8 * BORDER_ROWS * clocks_line
        - BORDER_COLS * CLOCKS_PER_COL + clocks_ula_beam_shift

\* mutant of next_border_pixel: a clock before the origin is clamped to the origin
next_border_pixel_clamped(clocks) ==
    LET rel    == IF clocks < clocks_origin THEN 0 ELSE clocks - clocks_origin
        line0  == rel \div clocks_line
        pixel0 == ((rel % clocks_line) + 1) * PIXELS_PER_CLOCK
        wrap   == pixel0 - PIXELS_PER_CLOCK >= SCREEN_WIDTH
        line   == IF wrap THEN line0 + 1 ELSE line0
        pixel  == IF wrap THEN 0 ELSE pixel0
    IN  IF line >= SCREEN_HEIGHT
        THEN [line |-> 0, pixel |-> 0, frame_end |-> TRUE]
        ELSE [line |-> line, pixel |-> pixel, frame_end |-> FALSE]

\* mutant of next_border_pixel: the frame ends one line late
next_border_pixel_late_end(clocks) ==
    IF clocks < clocks_origin
    THEN [line |-> 0, pixel |-> 0, frame_end |-> FALSE]
    ELSE LET rel    == clocks - clocks_origin
             line0  == rel \div clocks_line
             pixel0 == ((rel % clocks_line) + 1) * PIXELS_PER_CLOCK
             wrap   == pixel0 - PIXELS_PER_CLOCK >= SCREEN_WIDTH
             line   == IF wrap THEN line0 + 1 ELSE line0
             pixel  == IF wrap THEN 0 ELSE pixel0
         IN  IF line > SCREEN_HEIGHT
             THEN [line |-> 0, pixel |-> 0, frame_end |-> TRUE]
             ELSE [line |-> line, pixel |-> pixel, frame_end |-> FALSE]

\* mutant of next_border_pixel: the wrap moves to the next line but keeps the pixel
next_border_pixel_wrap_keeps_pixel(clocks) ==
    IF clocks < clocks_origin
    THEN [line |-> 0, pixel |-> 0, frame_end |-> FALSE]
    ELSE LET rel    == clocks - clocks_origin
             line0  == rel \div clocks_line
             pixel0 == ((rel % clocks_line) + 1) * PIXELS_PER_CLOCK
             wrap   == pixel0 - PIXELS_PER_CLOCK >= SCREEN_WIDTH
             line   == IF wrap THEN line0 + 1 ELSE line0
             pixel  == pixel0
         IN  IF line >= SCREEN_HEIGHT
             THEN [line |-> 0, pixel |-> 0, frame_end |-> TRUE]
             ELSE [line |-> line, pixel |-> pixel, frame_end |-> FALSE]

\* mutant of next_border_pixel: the wrap comes one clock late
next_border_pixel_wrap_late(clocks) ==
    IF clocks < clocks_origin
    THEN [line |-> 0, pixel |-> 0, frame_end |-> FALSE]
    ELSE LET rel    == clocks - clocks_origin
             line0  == rel \div clocks_line
             pixel0 == ((rel % clocks_line) + 1) * PIXELS_PER_CLOCK
             wrap   == pixel0 - PIXELS_PER_CLOCK > SCREEN_WIDTH
             line   == IF wrap THEN line0 + 1 ELSE line0
             pixel  == IF wrap THEN 0 ELSE pixel0
         IN  IF line >= SCREEN_HEIGHT
             THEN [line |-> 0, pixel |-> 0, frame_end |-> TRUE]
             ELSE [line |-> line, pixel |-> pixel, frame_end |-> FALSE]

next_border_pixel(clocks) ==
    IF clocks < clocks_origin
    THEN [line |-> 0, pixel |-> 0, frame_end |-> FALSE]
    ELSE LET rel    == clocks - clocks_origin
             line0  == rel \div clocks_line
             pixel0 == ((rel % clocks_line) + 1) * PIXELS_PER_CLOCK
             wrap   == pixel0 - PIXELS_PER_CLOCK >= SCREEN_WIDTH
             line   == IF wrap THEN line0 + 1 ELSE line0
             pixel  == IF wrap THEN 0 ELSE pixel0
         IN  IF line >= SCREEN_HEIGHT
             THEN [line |-> 0, pixel |-> 0, frame_end |-> TRUE]
             ELSE [line |-> line, pixel |-> pixel, frame_end |-> FALSE]

(***************************************************************************)
(* ZXBorder::fill_to                                                       *)
(***************************************************************************)
\* mutant of fill_range: the pixel at the last position is skipped
fill_range_skip_first(last, line, pixel) ==
    (last.line * SCREEN_WIDTH + last.pixel + 1) .. (line * SCREEN_WIDTH + pixel - 1)

\* mutant of fill_range: the span starts at the beginning of the last line
fill_range_from_line_start(last, line, pixel) ==
    (last.line * SCREEN_WIDTH) .. (line * SCREEN_WIDTH + pixel - 1)

\* mutant of fill_range: the target pixel is painted too
fill_range_inclusive(last, line, pixel) ==
    (last.line * SCREEN_WIDTH + last.pixel) .. (line * SCREEN_WIDTH + pixel)

\* the pixel indexes of the loop  last.line*W + last.pixel .. line*W + pixel
fill_range(last, line, pixel) ==
    (last.line * SCREEN_WIDTH + last.pixel) .. (line * SCREEN_WIDTH + pixel - 1)

\* mutant of fill_to: the colour is resolved at bright intensity
fill_to_bright(buf, last, line, pixel) ==
    LET color_array == get_rgba(last.color, "Bright")
    IN  [p \in DOMAIN buf |->
            IF p \in fill_range(last, line, pixel)
            THEN [b \in 1 .. BYTES_PER_PIXEL |-> color_array[b]]
            ELSE buf[p]]

\* mutant of fill_to: a target before the last position is painted backwards
fill_to_either_direction(buf, last, line, pixel) ==
    LET color_array == get_rgba(last.color, "Normal")
        from == last.line * SCREEN_WIDTH + last.pixel
        to   == line * SCREEN_WIDTH + pixel
    IN  [p \in DOMAIN buf |->
            IF p \in (IF from <= to THEN from .. (to - 1) ELSE to .. (from - 1))
            THEN [b \in 1 .. BYTES_PER_PIXEL |-> color_array[b]]
            ELSE buf[p]]

\* the buffer after fill_to(line, pixel) with beam_last = last
fill_to(buf, last, line, pixel) ==
    LET color_array == get_rgba(last.color, "Normal")
    IN  [p \in DOMAIN buf |->
            IF p \in fill_range(last, line, pixel)
            THEN [b \in 1 .. BYTES_PER_PIXEL |-> color_array[b]]
            ELSE buf[p]]

(***************************************************************************)
(* History bookkeeping                                                     *)
(***************************************************************************)
\* the last new_frame closed the frame that calls describes
Closed == calls # <<>> /\ calls[Len(calls)].op = "new_frame"

\* the set_border calls of the frame in progress
FrameEvents == IF Closed THEN <<>> ELSE calls

Record(call) ==
    /\ calls' = IF Closed THEN <<call>> ELSE Append(calls, call)
    /\ carry' = IF Closed THEN beam_last.color ELSE carry
    /\ painted' = (IF Closed THEN {} ELSE painted) \cup touched'

\* the largest clock a caller passes: the first one past the last scanline
MaxClock == clocks_origin + clocks_line * SCREEN_HEIGHT

Clocks == 0 .. MaxClock

(***************************************************************************)
(* ZXBorder::new                                                           *)
(***************************************************************************)
\* mutant of Init: the border starts blue
Init_blue ==
    /\ buffer = [p \in 0 .. (PIXEL_COUNT - 1) |-> [b \in 1 .. BYTES_PER_PIXEL |-> 0]]
    /\ beam_last = first_pixel("Blue")
    /\ border_changed = TRUE
    /\ beam_block = FALSE
    /\ calls = <<>>
    /\ carry = "Blue"
    /\ last_set = "Blue"
    /\ touched = {}
    /\ painted = {}
    /\ frames = 0
    /\ quiet = 0

Init ==
    /\ buffer = [p \in 0 .. (PIXEL_COUNT - 1) |-> [b \in 1 .. BYTES_PER_PIXEL |-> 0]]
    /\ beam_last = first_pixel("White")
    /\ border_changed = TRUE
    /\ beam_block = FALSE
    /\ calls = <<>>
    /\ carry = "White"
    /\ last_set = "White"
    /\ touched = {}
    /\ painted = {}
    /\ frames = 0
    /\ quiet = 0

(***************************************************************************)
(* ZXBorder::new_frame                                                     *)
(***************************************************************************)
\* mutant of new_frame: the tail is painted even when beam_block is set
new_frame_always_fill ==
    /\ frames < MaxFrames
    /\ LET last == IF ~border_changed THEN reset(beam_last) ELSE beam_last
       IN  /\ buffer' = fill_to(buffer, last, SCREEN_HEIGHT - 1, SCREEN_WIDTH)
           /\ touched' = fill_range(last, SCREEN_HEIGHT - 1, SCREEN_WIDTH)
           /\ beam_last' = reset(last)
    /\ border_changed' = FALSE
    /\ beam_block' = FALSE
    /\ Record([op |-> "new_frame"])
    /\ frames' = frames + 1
    /\ quiet' = IF Len(FrameEvents) = 0 THEN quiet + 1 ELSE 0
    /\ UNCHANGED last_set

\* mutant of new_frame: a frame without set_border is not repainted
new_frame_skip_unchanged ==
    /\ frames < MaxFrames
    /\ LET last == IF ~border_changed THEN reset(beam_last) ELSE beam_last
       IN  /\ buffer' = IF ~beam_block /\ border_changed
                        THEN fill_to(buffer, last, SCREEN_HEIGHT - 1, SCREEN_WIDTH)
                        ELSE buffer
           /\ touched' = IF ~beam_block /\ border_changed
                         THEN fill_range(last, SCREEN_HEIGHT - 1, SCREEN_WIDTH)
                         ELSE {}
           /\ beam_last' = reset(last)
    /\ border_changed' = FALSE
    /\ beam_block' = FALSE
    /\ Record([op |-> "new_frame"])
    /\ frames' = frames + 1
    /\ quiet' = IF Len(FrameEvents) = 0 THEN quiet + 1 ELSE 0
    /\ UNCHANGED last_set

\* mutant of new_frame: beam_block is not cleared
new_frame_keep_block ==
    /\ frames < MaxFrames
    /\ LET last == IF ~border_changed THEN reset(beam_last) ELSE beam_last
       IN  /\ buffer' = IF ~beam_block
                        THEN fill_to(buffer, last, SCREEN_HEIGHT - 1, SCREEN_WIDTH)
                        ELSE buffer
           /\ touched' = IF ~beam_block
                         THEN fill_range(last, SCREEN_HEIGHT - 1, SCREEN_WIDTH)
                         ELSE {}
           /\ beam_last' = reset(last)
    /\ border_changed' = FALSE
    /\ beam_block' = beam_block
    /\ Record([op |-> "new_frame"])
    /\ frames' = frames + 1
    /\ quiet' = IF Len(FrameEvents) = 0 THEN quiet + 1 ELSE 0
    /\ UNCHANGED last_set

\* mutant of new_frame: the beam is not rewound after the fill
new_frame_no_rewind ==
    /\ frames < MaxFrames
    /\ LET last == IF ~border_changed THEN reset(beam_last) ELSE beam_last
       IN  /\ buffer' = IF ~beam_block
                        THEN fill_to(buffer, last, SCREEN_HEIGHT - 1, SCREEN_WIDTH)
                        ELSE buffer
           /\ touched' = IF ~beam_block
                         THEN fill_range(last, SCREEN_HEIGHT - 1, SCREEN_WIDTH)
                         ELSE {}
           /\ beam_last' = last
    /\ border_changed' = FALSE
    /\ beam_block' = FALSE
    /\ Record([op |-> "new_frame"])
    /\ frames' = frames + 1
    /\ quiet' = IF Len(FrameEvents) = 0 THEN quiet + 1 ELSE 0
    /\ UNCHANGED last_set

new_frame ==
    /\ frames < MaxFrames
    /\ LET last == IF ~border_changed THEN reset(beam_last) ELSE beam_last
       IN  /\ buffer' = IF ~beam_block
                        THEN fill_to(buffer, last, SCREEN_HEIGHT - 1, SCREEN_WIDTH)
                        ELSE buffer
           /\ touched' = IF ~beam_block
                         THEN fill_range(last, SCREEN_HEIGHT - 1, SCREEN_WIDTH)
                         ELSE {}
           /\ beam_last' = reset(last)
    /\ border_changed' = FALSE
    /\ beam_block' = FALSE
    /\ Record([op |-> "new_frame"])
    /\ frames' = frames + 1
    /\ quiet' = IF Len(FrameEvents) = 0 THEN quiet + 1 ELSE 0
    /\ UNCHANGED last_set

(***************************************************************************)
(* ZXBorder::set_border                                                    *)
(***************************************************************************)
\* mutant of set_border: beam_last is written before the span is painted
set_border_paint_new_color(clocks, color) ==
    /\ frames < MaxFrames - 1
    /\ Len(FrameEvents) < MaxEvents
    /\ border_changed' = TRUE
    /\ LET pos  == next_border_pixel(clocks)
           tail == ~beam_block /\ pos.frame_end
           last == [beam_last EXCEPT !.color = color]
           buf1 == IF tail
                   THEN fill_to(buffer, last, SCREEN_HEIGHT - 1, SCREEN_WIDTH)
                   ELSE buffer
           wr1  == IF tail
                   THEN fill_range(last, SCREEN_HEIGHT - 1, SCREEN_WIDTH)
                   ELSE {}
       IN  /\ buffer' = IF ~beam_block
                        THEN fill_to(buf1, last, pos.line, pos.pixel)
                        ELSE buf1
           /\ touched' = IF ~beam_block
                         THEN wr1 \cup fill_range(last, pos.line, pos.pixel)
                         ELSE wr1
           /\ beam_block' = (beam_block \/ pos.frame_end)
           /\ beam_last' = BeamInfo_new(pos.line, pos.pixel, color)
    /\ Record([op |-> "set_border", clocks |-> clocks, color |-> color])
    /\ last_set' = color
    /\ quiet' = 0
    /\ UNCHANGED frames

\* mutant of set_border: beam_last is left alone once beam_block is set
set_border_blocked_keeps_beam(clocks, color) ==
    /\ frames < MaxFrames - 1
    /\ Len(FrameEvents) < MaxEvents
    /\ border_changed' = TRUE
    /\ LET pos  == next_border_pixel(clocks)
           tail == ~beam_block /\ pos.frame_end
           buf1 == IF tail
                   THEN fill_to(buffer, beam_last, SCREEN_HEIGHT - 1, SCREEN_WIDTH)
                   ELSE buffer
           wr1  == IF tail
                   THEN fill_range(beam_last, SCREEN_HEIGHT - 1, SCREEN_WIDTH)
                   ELSE {}
       IN  /\ buffer' = IF ~beam_block
                        THEN fill_to(buf1, beam_last, pos.line, pos.pixel)
                        ELSE buf1
           /\ touched' = IF ~beam_block
                         THEN wr1 \cup fill_range(beam_last, pos.line, pos.pixel)
                         ELSE wr1
           /\ beam_block' = (beam_block \/ pos.frame_end)
           /\ beam_last' = IF beam_block
                           THEN beam_last
                           ELSE BeamInfo_new(pos.line, pos.pixel, color)
    /\ Record([op |-> "set_border", clocks |-> clocks, color |-> color])
    /\ last_set' = color
    /\ quiet' = 0
    /\ UNCHANGED frames

\* mutant of set_border: nothing is painted while the beam is at the first pixel
set_border_skip_first_pixel(clocks, color) ==
    /\ frames < MaxFrames - 1
    /\ Len(FrameEvents) < MaxEvents
    /\ border_changed' = TRUE
    /\ LET pos  == next_border_pixel(clocks)
           skip == beam_block \/ (beam_last.line = 0 /\ beam_last.pixel = 0)
           tail == ~skip /\ pos.frame_end
           buf1 == IF tail
                   THEN fill_to(buffer, beam_last, SCREEN_HEIGHT - 1, SCREEN_WIDTH)
                   ELSE buffer
           wr1  == IF tail
                   THEN fill_range(beam_last, SCREEN_HEIGHT - 1, SCREEN_WIDTH)
                   ELSE {}
       IN  /\ buffer' = IF ~skip
                        THEN fill_to(buf1, beam_last, pos.line, pos.pixel)
                        ELSE buf1
           /\ touched' = IF ~skip
                         THEN wr1 \cup fill_range(beam_last, pos.line, pos.pixel)
                         ELSE wr1
           /\ beam_block' = (beam_block \/ tail)
           /\ beam_last' = BeamInfo_new(pos.line, pos.pixel, color)
    /\ Record([op |-> "set_border", clocks |-> clocks, color |-> color])
    /\ last_set' = color
    /\ quiet' = 0
    /\ UNCHANGED frames

set_border(clocks, color) ==
    /\ frames < MaxFrames - 1
    /\ Len(FrameEvents) < MaxEvents
    /\ border_changed' = TRUE
    /\ LET pos  == next_border_pixel(clocks)
           tail == ~beam_block /\ pos.frame_end
           buf1 == IF tail
                   THEN fill_to(buffer, beam_last, SCREEN_HEIGHT - 1, SCREEN_WIDTH)
                   ELSE buffer
           wr1  == IF tail
                   THEN fill_range(beam_last, SCREEN_HEIGHT - 1, SCREEN_WIDTH)
                   ELSE {}
       IN  /\ buffer' = IF ~beam_block
                        THEN fill_to(buf1, beam_last, pos.line, pos.pixel)
                        ELSE buf1
           /\ touched' = IF ~beam_block
                         THEN wr1 \cup fill_range(beam_last, pos.line, pos.pixel)
                         ELSE wr1
           /\ beam_block' = (beam_block \/ pos.frame_end)
           /\ beam_last' = BeamInfo_new(pos.line, pos.pixel, color)
    /\ Record([op |-> "set_border", clocks |-> clocks, color |-> color])
    /\ last_set' = color
    /\ quiet' = 0
    /\ UNCHANGED frames

(***************************************************************************)
(* Specifications                                                          *)
(***************************************************************************)
\* the caller's discipline: clocks do not decrease within a frame
InOrder(clocks) ==
    IF Len(FrameEvents) = 0
    THEN TRUE
    ELSE FrameEvents[Len(FrameEvents)].clocks <= clocks

SetBorder == \E clocks \in Clocks, color \in ZXColor : set_border(clocks, color)

SetBorderInOrder ==
    \E clocks \in Clocks, color \in ZXColor :
        InOrder(clocks) /\ set_border(clocks, color)

\* any caller: clocks arbitrary
Next == SetBorder \/ new_frame

Spec == Init /\ [][Next]_vars

\* a caller that keeps the clocks of a frame in order
NextInOrder == SetBorderInOrder \/ new_frame

SpecInOrder == Init /\ [][NextInOrder]_vars

TypeOK ==
    /\ beam_last.color \in ZXColor
    /\ border_changed \in BOOLEAN
    /\ beam_block \in BOOLEAN
    /\ frames \in 0 .. MaxFrames

(***************************************************************************)
(* Vocabulary of the properties                                            *)
(***************************************************************************)
Pixels == 0 .. (PIXEL_COUNT - 1)

\* raster order of a position
Linear(line, pixel) == line * SCREEN_WIDTH + pixel

\* pixel i of buf holds the bytes of color at normal brightness
HoldsIn(buf, i, color) ==
    \A b \in 1 .. BYTES_PER_PIXEL : buf[i][b] = get_rgba(color, "Normal")[b]

Holds(i, color) == HoldsIn(buffer, i, color)

AllPixels(color) == \A i \in Pixels : Holds(i, color)

FrameEnded(call) == next_border_pixel(call.clocks).frame_end

\* where a set_border call takes effect; past the last pixel when the frame has ended
EventPos(call) ==
    LET pos == next_border_pixel(call.clocks)
    IN  IF pos.frame_end THEN PIXEL_COUNT ELSE Linear(pos.line, pos.pixel)

\* the colour the beam paints at pixel i, after the events evs of a frame entered with c0
ActiveColor(evs, c0, i) ==
    LET ks == {k \in 1 .. Len(evs) : EventPos(evs[k]) <= i}
    IN  IF ks = {}
        THEN c0
        ELSE evs[CHOOSE k \in ks : \A j \in ks : j <= k].color

\* the set_border calls of the frame that calls describes
EventsOf(cs) == IF Closed THEN SubSeq(cs, 1, Len(cs) - 1) ELSE cs

MidFrame(call) == ~FrameEnded(call) /\ 0 < EventPos(call)

\* C1: when new_frame returns, every pixel holds the colour of the last
\* set_border of the frame that took effect at or before it (a call past the
\* frame end taking effect after the last pixel), and the colour carried into
\* the frame if there is none -- for clocks in order within the frame.
C1_FrameRendered ==
    Closed => \A i \in Pixels : Holds(i, ActiveColor(EventsOf(calls), carry, i))

C1_Witness ==
    /\ Closed
    /\ frames = 1
    /\ Len(calls) = 3
    /\ MidFrame(calls[1])
    /\ EventPos(calls[1]) < EventPos(calls[2])
    /\ EventPos(calls[2]) < PIXEL_COUNT
    /\ calls[1].color # carry
    /\ calls[2].color # calls[1].color

\* C2: at any moment every pixel before beam_last holds the colour that was
\* active there in the frame in progress -- for clocks in order within the frame.
C2_PaintedPrefix ==
    \A i \in Pixels :
        i < Linear(beam_last.line, beam_last.pixel) =>
            Holds(i, ActiveColor(FrameEvents,
                                 IF Closed THEN beam_last.color ELSE carry, i))

C2_Witness ==
    /\ ~Closed
    /\ Len(calls) = 2
    /\ MidFrame(calls[1])
    /\ EventPos(calls[1]) < Linear(beam_last.line, beam_last.pixel)
    /\ calls[1].color # carry
    /\ calls[2].color # calls[1].color

C4_FreshNewFrame ==
    (frames = 1 /\ Closed /\ Len(calls) = 1) =>
        /\ AllPixels("White")
        /\ beam_last.line = 0
        /\ beam_last.pixel = 0

C4_Witness == frames = 1 /\ Closed /\ Len(calls) = 1 /\ quiet = 1

\* a step that is a call of new_frame / of set_border
NewFrameStep == frames' = frames + 1

SetBorderStep == frames' = frames /\ calls' # calls

NewFrameCall == [op |-> "new_frame"]

C6_ColorCarry ==
    /\ beam_last.color = last_set
    /\ (Len(FrameEvents) > 0) =>
          LET call == calls[Len(calls)]
              pos  == next_border_pixel(call.clocks)
          IN  beam_last = BeamInfo_new(pos.line, pos.pixel, call.color)

C6_Witness ==
    /\ beam_block
    /\ Len(FrameEvents) = 2
    /\ FrameEnded(calls[1])
    /\ calls[2].color # calls[1].color
    /\ beam_last.color = calls[2].color

\* C7: the set_border that finds the frame ended paints from beam_last to the
\* last pixel with the previous colour; from then on beam_block stays set
\* until new_frame, and no call, that new_frame included, changes the buffer.
C7_EndOfFrameBlocking ==
    [][ /\ (~beam_block /\ beam_block') =>
              \A i \in Linear(beam_last.line, beam_last.pixel) .. (PIXEL_COUNT - 1) :
                  HoldsIn(buffer', i, beam_last.color)
        /\ (beam_block /\ SetBorderStep) => beam_block'
        /\ beam_block => buffer' = buffer ]_vars

C7_Witness ==
    /\ Closed
    /\ Len(calls) = 3
    /\ FrameEnded(calls[1])
    /\ MidFrame(calls[2])
    /\ calls[1].color # carry
    /\ calls[2].color # calls[1].color

\* C8: new_frame leaves the beam at (0, 0) with the colour it had, and both
\* flags cleared.
C8_NewFramePost ==
    [][NewFrameStep =>
          /\ beam_last' = [line |-> 0, pixel |-> 0, color |-> beam_last.color]
          /\ border_changed' = FALSE
          /\ beam_block' = FALSE]_vars

C8_Witness ==
    /\ Closed
    /\ Len(calls) = 2
    /\ MidFrame(calls[1])
    /\ next_border_pixel(calls[1].clocks).pixel > 0
    /\ calls[1].color # carry

\* C9: a frame between two new_frame calls without a set_border ends with
\* every pixel holding the carried colour.
C9_HeldColorRepainted ==
    (frames >= 2 /\ calls = <<NewFrameCall>>) => AllPixels(beam_last.color)

C9_Witness ==
    /\ frames >= 2
    /\ calls = <<NewFrameCall>>
    /\ quiet = 1
    /\ beam_last.color # "White"

\* C10 as stated: every written pixel index is inside the buffer, and a
\* set_border whose mapped (line, pixel) is not after beam_last writes nothing.
C10_Original ==
    [][ /\ touched' \subseteq Pixels
        /\ SetBorderStep =>
              LET pos == next_border_pixel(calls'[Len(calls')].clocks)
              IN  Linear(pos.line, pos.pixel) <= Linear(beam_last.line, beam_last.pixel)
                      => touched' = {} ]_vars

\* C10 amended: every written pixel index is inside the buffer, and a
\* set_border that does not find the frame ended and whose mapped
\* (line, pixel) is not after beam_last writes nothing.
C10_NoCrash ==
    [][ /\ touched' \subseteq Pixels
        /\ SetBorderStep =>
              LET pos == next_border_pixel(calls'[Len(calls')].clocks)
              IN  ( /\ ~pos.frame_end
                    /\ Linear(pos.line, pos.pixel)
                           <= Linear(beam_last.line, beam_last.pixel) )
                      => (touched' = {} /\ buffer' = buffer) ]_vars

C10_Witness ==
    /\ Len(FrameEvents) = 2
    /\ ~beam_block
    /\ MidFrame(calls[1])
    /\ calls[2].clocks < calls[1].clocks
    /\ EventPos(calls[2]) < EventPos(calls[1])
    /\ touched = {}

\* the set_border calls that calls holds, as indexes
EventIndexes == 1 .. Len(EventsOf(calls))

\* the latest call was set_border
AfterSetBorder == Len(FrameEvents) > 0

LastCall == calls[Len(calls)]

\* C11: a clock before the origin maps to line 0, pixel 0, frame not ended;
\* the set_border that was passed it leaves the beam at (0, 0).
C11_BeforeOrigin ==
    /\ \A k \in EventIndexes :
          calls[k].clocks < clocks_origin =>
              next_border_pixel(calls[k].clocks)
                  = [line |-> 0, pixel |-> 0, frame_end |-> FALSE]
    /\ (AfterSetBorder /\ LastCall.clocks < clocks_origin) =>
          (beam_last.line = 0 /\ beam_last.pixel = 0)

C11_Witness ==
    /\ Len(FrameEvents) = 2
    /\ MidFrame(calls[1])
    /\ calls[2].clocks < clocks_origin
    /\ ~beam_block
    /\ beam_last.line = 0
    /\ beam_last.pixel = 0

\* the line of a clock at or after the origin, a pixel past the frame width
\* counting as pixel 0 of the next line
WrappedLine(clocks) ==
    LET rel == clocks - clocks_origin
    IN  IF (rel % clocks_line) * PIXELS_PER_CLOCK >= SCREEN_WIDTH
        THEN (rel \div clocks_line) + 1
        ELSE rel \div clocks_line

PastFrame(clocks) == clocks >= clocks_origin /\ WrappedLine(clocks) >= SCREEN_HEIGHT

\* C12: a clock at or after the origin whose line, after the horizontal wrap,
\* is SCREEN_HEIGHT or more maps to (0, 0, frame ended); for every other clock
\* the frame is not ended.
C12_FrameEnd ==
    /\ \A k \in EventIndexes :
          IF PastFrame(calls[k].clocks)
          THEN next_border_pixel(calls[k].clocks)
                   = [line |-> 0, pixel |-> 0, frame_end |-> TRUE]
          ELSE next_border_pixel(calls[k].clocks).frame_end = FALSE
    /\ (AfterSetBorder /\ PastFrame(LastCall.clocks)) =>
          (beam_block /\ beam_last.line = 0 /\ beam_last.pixel = 0)

\* the frame has ended by the wrap at the end of the last line
C12_Witness ==
    /\ Len(FrameEvents) = 2
    /\ MidFrame(calls[1])
    /\ calls[2].clocks >= clocks_origin
    /\ (calls[2].clocks - clocks_origin) \div clocks_line = SCREEN_HEIGHT - 1
    /\ WrappedLine(calls[2].clocks) = SCREEN_HEIGHT
    /\ beam_block
    /\ touched # {}

\* C13: fill_to with a target that is not after beam_last paints no pixel and
\* leaves the buffer as it is, whatever the state.
C13_FillToNoOp ==
    \A line \in 0 .. (SCREEN_HEIGHT - 1), pixel \in 0 .. SCREEN_WIDTH :
        Linear(line, pixel) <= Linear(beam_last.line, beam_last.pixel) =>
            /\ fill_range(beam_last, line, pixel) = {}
            /\ fill_to(buffer, beam_last, line, pixel) = buffer

\* set_border was passed the same clock twice: its fill_to had the target at beam_last
C13_Witness ==
    /\ Len(FrameEvents) = 2
    /\ MidFrame(calls[1])
    /\ calls[2].clocks = calls[1].clocks
    /\ calls[1].color # carry
    /\ ~beam_block
    /\ touched = {}
    /\ Holds(0, carry)

\* C14: whatever clocks the set_border calls of a frame were passed, when
\* new_frame returns every pixel has been written since the frame began.
C14_SelfCorrection == Closed => painted = Pixels

\* a frame with the clocks out of order
C14_Witness ==
    /\ Closed
    /\ Len(calls) = 3
    /\ MidFrame(calls[1])
    /\ calls[2].clocks < calls[1].clocks
    /\ EventPos(calls[2]) < EventPos(calls[1])
    /\ calls[2].color # calls[1].color
    /\ painted = Pixels

\* C15: the flags are never (border_changed false, beam_block true), and
\* after new_frame both are false.
C15_FlagStates ==
    /\ <<border_changed, beam_block>> \in
           {<<FALSE, FALSE>>, <<TRUE, FALSE>>, <<TRUE, TRUE>>}
    /\ Closed => (~border_changed /\ ~beam_block)

\* a frame that went through (true, false) and (true, true) and is closed
C15_Witness ==
    /\ Closed
    /\ Len(calls) = 3
    /\ MidFrame(calls[1])
    /\ FrameEnded(calls[2])
    /\ ~border_changed
    /\ ~beam_block

\* C16: while border_changed is false the beam is at (0, 0), so the new_frame
\* that finds it false paints from pixel 0.
C16_UnchangedAtOrigin ==
    /\ ~border_changed => (beam_last.line = 0 /\ beam_last.pixel = 0)
    /\ (frames >= 2 /\ calls = <<NewFrameCall>>) => touched = Pixels

C16_Witness ==
    /\ frames >= 2
    /\ calls = <<NewFrameCall>>
    /\ ~border_changed
    /\ touched = Pixels
    /\ carry # "White"

\* C17: the mapping is monotone: of two clocks c1 <= c2 passed to set_border,
\* if c2 is before the frame end so is c1, at a position not after that of
\* c2, and if c1 is past the frame end so is c2; hence with clocks in order
\* a set_border before the frame end never finds its target before beam_last.
C17_Monotone ==
    /\ \A k \in EventIndexes, j \in EventIndexes :
          (k < j /\ calls[k].clocks <= calls[j].clocks) =>
              /\ ~FrameEnded(calls[j]) =>
                    (~FrameEnded(calls[k]) /\ EventPos(calls[k]) <= EventPos(calls[j]))
              /\ FrameEnded(calls[k]) => FrameEnded(calls[j])
    /\ (Len(FrameEvents) >= 2 /\ ~beam_block) =>
          EventPos(calls[Len(calls) - 1]) <= Linear(beam_last.line, beam_last.pixel)

\* the last visible clock of a line and the wrap that follows it: the same position
C17_Witness ==
    /\ Len(FrameEvents) = 2
    /\ calls[2].clocks = calls[1].clocks + 1
    /\ next_border_pixel(calls[1].clocks).pixel = SCREEN_WIDTH
    /\ ~FrameEnded(calls[2])
    /\ next_border_pixel(calls[2].clocks).pixel = 0
    /\ next_border_pixel(calls[2].clocks).line
           = next_border_pixel(calls[1].clocks).line + 1
    /\ touched = {}

\* C18: every clock passed to set_border maps to a line below SCREEN_HEIGHT
\* and a pixel of at most SCREEN_WIDTH, so beam_last is always in that range
\* and at most at the end of the buffer.
C18_BeamRange ==
    /\ \A k \in EventIndexes :
          /\ next_border_pixel(calls[k].clocks).line \in 0 .. (SCREEN_HEIGHT - 1)
          /\ next_border_pixel(calls[k].clocks).pixel \in 0 .. SCREEN_WIDTH
    /\ beam_last.line \in 0 .. (SCREEN_HEIGHT - 1)
    /\ beam_last.pixel \in 0 .. SCREEN_WIDTH
    /\ Linear(beam_last.line, beam_last.pixel) <= PIXEL_COUNT

\* the beam at the far end of the last line
C18_Witness ==
    /\ AfterSetBorder
    /\ beam_last.line = SCREEN_HEIGHT - 1
    /\ beam_last.pixel = SCREEN_WIDTH
    /\ ~beam_block

====
